---- MODULE Spec2Model ----
(***************************************************************************)
(* DAKOTA drivers of dakota_driver/driver.py: DakotaBase and its variants  *)
(* (DakotaCONMIN, DakotaMultidimStudy, DakotaVectorStudy,                   *)
(* DakotaGlobalSAStudy): the input deck they assemble, the run they start  *)
(* and the callback the engine calls once per evaluation.                   *)
(*                                                                         *)
(* The host framework (parameters, objectives, constraints, the workflow)  *)
(* and the engine (the dakota module) are the driver's environment: the    *)
(* model gives them the behaviour the driver's calls and tests rely on.    *)
(***************************************************************************)
EXTENDS Integers, Sequences, FiniteSets, TLC

\* ------------------------------------------------------------------ bounds
\* Run attempts (top.run()) explored per behaviour.
MaxRuns == 2
\* Evaluations the engine requests in one run.
MaxEvals == 1
\* Longest partitions / final_point list the user assigns.
MaxList == 3
\* Evaluations the engine requests in one run of a configured driver that
\* is run as it is, without edits.
MaxCallbacks == 2

\* ------------------------------------------------------- driver variants
Variants ==
    {"DakotaBase", "DakotaCONMIN", "DakotaMultidimStudy",
     "DakotaVectorStudy", "DakotaGlobalSAStudy"}

\* @add_delegate(HasIneqConstraints) is on DakotaCONMIN alone; no class of
\* the file has equality constraints.
HasIneqDelegate(v) == v = "DakotaCONMIN"
HasEqDelegate(v) == FALSE

\* DakotaCONMIN.__init__ limits the objectives to one; 0 is unlimited.
MaxObjectives(v) == IF v = "DakotaCONMIN" THEN 1 ELSE 0

\* ------------------------------------------------------------- the host
\* Inputs of the host component, Textbook-like: two scalars and an array
\* of two.
Targets == {"x1", "x2", "a[0]", "a[1]"}

\* The parameters a user can declare (add_parameter): an array parameter
\* (one variable per element) and a parameter with two targets driven by
\* one variable.  names is param.names, size is param.size, slots lists for
\* each variable the host inputs it drives.
ParamKinds ==
    { [name |-> "a", names |-> <<"a[0]", "a[1]">>,
       slots |-> << <<"a[0]">>, <<"a[1]">> >>,
       size |-> 2, low |-> -2, high |-> 2],
      [name |-> "x1", names |-> <<"x1">>, slots |-> << <<"x1", "x2">> >>,
       size |-> 1, low |-> 0, high |-> 4] }

\* Objective expressions over the host's output f, in the order a user
\* adds them.
ObjExprs == <<"f", "f+1">>

\* Inequality constraints of the form lhs op rhs, in the order a user adds
\* them.
ConKinds ==
    << [name |-> "g1", lhs |-> "x1**2-x2", op |-> "<=", rhs |-> "0"],
       [name |-> "g2", lhs |-> "a[0]", op |-> ">=", rhs |-> "x1"] >>

Pow4(n) == n * n * n * n

RECURSIVE SumOver(_, _)
SumOver(S, x) ==
    IF S = {} THEN 0
    ELSE LET t == CHOOSE u \in S : TRUE
         IN  Pow4(x[t] - 1) + SumOver(S \ {t}, x)

\* Textbook.execute: f = (x1 - 1)**4 + (x2 - 1)**4, over all inputs.
HostF(x) == SumOver(Targets, x)

\* ExprEvaluator.evaluate of a scalar expression on the host's state.
ExprValue(e, h) ==
    CASE e = "f" -> h.f
      [] e = "f+1" -> h.f + 1
      [] e = "x1**2-x2" -> h.x["x1"] * h.x["x1"] - h.x["x2"]
      [] e = "a[0]" -> h.x["a[0]"]
      [] e = "x1" -> h.x["x1"]
      [] e = "0" -> 0

\* ------------------------------------------------------------ the state
VARIABLES
    variant,                \* the driver's class
    relational,             \* the constraint evaluator yields a relation
    parameters,             \* HasParameters: declared parameters, in order
    objectives,             \* HasObjectives: declared objectives, in order
    constraints,            \* HasIneqConstraints: declared constraints
    tabular_graphics_data,  \* the driver's option
    partitions,             \* DakotaMultidimStudy.partitions
    final_point,            \* DakotaVectorStudy.final_point
    input,                  \* self.input, the DakotaInput deck
    host,                   \* the host model: inputs x and output f
    pc,                     \* where control is
    error,                  \* what the last run raised to its caller
    runs,                   \* run attempts so far
    run,                    \* what the current or last run did
    cb                      \* the frame of the current or last callback

vars ==
    <<variant, relational, parameters, objectives, constraints,
      tabular_graphics_data, partitions, final_point, input, host, pc,
      error, runs, run, cb>>

config ==
    <<variant, relational, parameters, objectives, constraints,
      tabular_graphics_data, partitions, final_point>>

\* ------------------------------------------------------ small utilities
\* An exception: its type, its message (a format and its arguments) and
\* the pathname prefix raise_exception and reraise_exception put before it.
NoError == [type |-> "none", msg |-> "none", args |-> <<>>, prefix |-> ""]
\* self.raise_exception(msg, type)
Raise(type, msg, args) ==
    [type |-> type, msg |-> msg, args |-> args, prefix |-> "driver: "]

\* str(val): the default decimal form of a number.
Str(n) == [str |-> n]
\* '%r' % name: the name between quotes.
Repr(s) == [quoted |-> s]

Line(key, vals) == [key |-> key, vals |-> vals]

RECURSIVE Flatten(_)
Flatten(ss) ==
    IF ss = <<>> THEN <<>> ELSE Head(ss) \o Flatten(Tail(ss))

RECURSIVE Repeat(_, _)
Repeat(v, n) == IF n = 0 THEN <<>> ELSE <<v>> \o Repeat(v, n - 1)

Map(f(_), s) == [k \in 1..Len(s) |-> f(s[k])]

RECURSIVE SumSeq(_)
SumSeq(s) == IF s = <<>> THEN 0 ELSE Head(s) + SumSeq(Tail(s))

Range(s) == {s[k] : k \in 1..Len(s)}

\* ---------------------------------------- the host framework's delegates
\* HasParameters.total_parameters: the number of variables, an array
\* parameter counting once per element.
SizeOf(p) == p.size
total_parameters(ps) == SumSeq(Map(SizeOf, ps))

\* HasParameters.get_lower_bounds / get_upper_bounds: one bound per variable.
LowsOf(p) == Repeat(p.low, p.size)
HighsOf(p) == Repeat(p.high, p.size)
get_lower_bounds(ps) == Flatten(Map(LowsOf, ps))
get_upper_bounds(ps) == Flatten(Map(HighsOf, ps))

\* The flat list of variables: for each, the host inputs it drives.
SlotsOf(p) == p.slots
AllSlots(ps) == Flatten(Map(SlotsOf, ps))

\* HasParameters.eval_parameters: the current value of each variable, read
\* from the first input it drives.
eval_parameters(ps, h) ==
    [k \in 1..Len(AllSlots(ps)) |-> h.x[AllSlots(ps)[k][1]]]

\* A set_parameters that writes the first input of each variable only.
set_parameters_first_target(ps, values, h) ==
    [h EXCEPT !.x =
        [t \in Targets |->
            IF \E k \in 1..Len(AllSlots(ps)) : t = AllSlots(ps)[k][1]
            THEN values[CHOOSE k \in 1..Len(AllSlots(ps)) :
                            t = AllSlots(ps)[k][1]]
            ELSE h.x[t]]]

\* HasParameters.set_parameters: value k goes to every input of variable k.
set_parameters(ps, values, h) ==
    [h EXCEPT !.x =
        [t \in Targets |->
            IF \E k \in 1..Len(AllSlots(ps)) : t \in Range(AllSlots(ps)[k])
            THEN values[CHOOSE k \in 1..Len(AllSlots(ps)) :
                            t \in Range(AllSlots(ps)[k])]
            ELSE h.x[t]]]

\* Driver.run_iteration: run the workflow once; the component stores f.
run_iteration(h) == [h EXCEPT !.f = HostF(h.x)]

\* ------------------------------------------------------- deck assembly
\* The names loop of set_variables: one quoted name per entry of
\* param.names, parameter by parameter.
NamesOf(p) == Map(Repr, p.names)
NameOf(p) == <<Repr(p.name)>>
\* A names loop with one name per parameter.
descriptor_names_per_parameter(ps) == Flatten(Map(NameOf, ps))
descriptor_names(ps) == Flatten(Map(NamesOf, ps))

\* DakotaBase.set_variables.
set_variables(ps, h, need_start, uniform) ==
    << Line(IF uniform THEN "uniform_uncertain" ELSE "continuous_design",
            <<Str(total_parameters(ps))>>) >>
    \o (IF need_start
        THEN << Line("initial_point", Map(Str, eval_parameters(ps, h))) >>
        ELSE <<>>)
    \o << Line("lower_bounds", Map(Str, get_lower_bounds(ps))),
          Line("upper_bounds", Map(Str, get_upper_bounds(ps))),
          Line("descriptors", descriptor_names(ps)) >>

\* DakotaBase.__init__: the baseline deck.
BaselineInput ==
    [strategy |-> << <<"single_method">> >>,
     method |-> <<>>,
     model |-> << <<"single">> >>,
     variables |-> <<>>,
     responses |-> <<>>]

\* A check_config that looks at the objectives before the parameters.
check_config_objectives_first(ps, objs) ==
    IF objs = <<>> THEN Raise("ValueError", "No objectives, run aborted", <<>>)
    ELSE IF ps = <<>>
         THEN Raise("ValueError", "No parameters, run aborted", <<>>)
         ELSE NoError

\* DakotaBase.check_config: parameters first, then objectives.
check_config(ps, objs) ==
    IF ps = <<>> THEN Raise("ValueError", "No parameters, run aborted", <<>>)
    ELSE IF objs = <<>>
         THEN Raise("ValueError", "No objectives, run aborted", <<>>)
         ELSE NoError

\* The result of configure_input: what it raised and the deck it leaves.
Configured(inp) == [err |-> NoError, input |-> inp]
NotConfigured(err, inp) == [err |-> err, input |-> inp]

\* DakotaBase.configure_input: must be overridden.
configure_input_Base(inp) ==
    NotConfigured(Raise("NotImplementedError", "configure_input", <<>>), inp)

\* A method choice that ignores the constraints.
conmin_method_always_mfd(cons) == "conmin_mfd"

\* DakotaCONMIN.configure_input.
conmin_method(cons) == IF cons # <<>> THEN "conmin_mfd" ELSE "conmin_frcg"

configure_input_CONMIN(inp, ps, objs, cons, h) ==
    Configured(
      [inp EXCEPT
        !.method =
            << Line(conmin_method(cons), <<>>),
               Line("output", <<"normal">>),
               Line("max_iterations", <<Str(100)>>),
               Line("max_function_evaluations", <<Str(1000)>>),
               Line("convergence_tolerance", <<"1e-07">>) >>
            \o (IF cons # <<>>
                THEN << Line("constraint_tolerance", <<"1e-07">>) >>
                ELSE <<>>),
        !.variables = set_variables(ps, h, TRUE, FALSE),
        !.responses =
            << Line("objective_functions", <<Str(Len(objs))>>) >>
            \o (IF cons # <<>>
                THEN << Line("nonlinear_inequality_constraints",
                             <<Str(Len(cons))>>) >>
                ELSE <<>>)
            \o << Line("numerical_gradients", <<>>),
                  Line("method_source", <<"dakota">>),
                  Line("interval_type", <<"forward">>),
                  Line("fd_gradient_step_size", <<"1e-05">>),
                  Line("no_hessians", <<>>) >>])

\* A multidim configure_input that compares the partitions with the number
\* of parameters, an array parameter counting once.
configure_input_Multidim_per_parameter(inp, ps, objs, parts, h) ==
    IF Len(parts) # Len(ps)
    THEN NotConfigured(
            Raise("ValueError", "#partitions (%s) != #parameters (%s)",
                  <<Len(parts), Len(ps)>>), inp)
    ELSE Configured(
      [inp EXCEPT
        !.method =
            << Line("multidim_parameter_study", <<>>),
               Line("output", <<"normal">>),
               Line("partitions", Map(Str, parts)) >>,
        !.variables = set_variables(ps, h, FALSE, FALSE),
        !.responses =
            << Line("objective_functions", <<Str(Len(objs))>>),
               Line("no_gradients", <<>>),
               Line("no_hessians", <<>>) >>])

\* DakotaMultidimStudy.configure_input.
configure_input_Multidim(inp, ps, objs, parts, h) ==
    IF Len(parts) # total_parameters(ps)
    THEN NotConfigured(
            Raise("ValueError", "#partitions (%s) != #parameters (%s)",
                  <<Len(parts), total_parameters(ps)>>), inp)
    ELSE Configured(
      [inp EXCEPT
        !.method =
            << Line("multidim_parameter_study", <<>>),
               Line("output", <<"normal">>),
               Line("partitions", Map(Str, parts)) >>,
        !.variables = set_variables(ps, h, FALSE, FALSE),
        !.responses =
            << Line("objective_functions", <<Str(Len(objs))>>),
               Line("no_gradients", <<>>),
               Line("no_hessians", <<>>) >>])

\* DakotaVectorStudy.configure_input.
configure_input_Vector(inp, ps, objs, final, h) ==
    IF Len(final) # total_parameters(ps)
    THEN NotConfigured(
            Raise("ValueError", "#final_point (%s) != #parameters (%s)",
                  <<Len(final), total_parameters(ps)>>), inp)
    ELSE Configured(
      [inp EXCEPT
        !.method =
            << Line("output", <<"normal">>),
               Line("vector_parameter_study", <<>>),
               Line("final_point", Map(Str, final)),
               Line("num_steps", <<Str(1)>>) >>,
        !.variables = set_variables(ps, h, FALSE, FALSE),
        !.responses =
            << Line("objective_functions", <<Str(Len(objs))>>),
               Line("no_gradients", <<>>),
               Line("no_hessians", <<>>) >>])

\* DakotaGlobalSAStudy.configure_input.
configure_input_GlobalSA(inp, ps, objs, h) ==
    Configured(
      [inp EXCEPT
        !.method =
            << Line("sampling", <<>>),
               Line("output", <<"normal">>),
               Line("sample_type", <<"lhs">>),
               Line("seed", <<Str(52983)>>),
               Line("samples", <<Str(100)>>) >>,
        !.variables = set_variables(ps, h, FALSE, TRUE),
        !.responses =
            << Line("num_response_functions", <<Str(Len(objs))>>),
               Line("response_descriptors", Map(Repr, objs)),
               Line("no_gradients", <<>>),
               Line("no_hessians", <<>>) >>])

\* self.configure_input(), dispatched on the driver's class.
configure_input(v, inp, ps, objs, cons, parts, final, h) ==
    CASE v = "DakotaCONMIN" -> configure_input_CONMIN(inp, ps, objs, cons, h)
      [] v = "DakotaMultidimStudy" ->
            configure_input_Multidim(inp, ps, objs, parts, h)
      [] v = "DakotaVectorStudy" ->
            configure_input_Vector(inp, ps, objs, final, h)
      [] v = "DakotaGlobalSAStudy" -> configure_input_GlobalSA(inp, ps, objs, h)
      [] OTHER -> configure_input_Base(inp)

\* ------------------------------------------------------------ run_dakota
Keyword == "tabular_graphics_data"

\* 'tabular_graphics_data' in line
Contains(line) == \E k \in 1..Len(line) : line[k] = Keyword

\* line.replace('tabular_graphics_data', '')
IsNotKeyword(tok) == tok # Keyword
Cut(line) == SelectSeq(line, IsNotKeyword)

\* A toggle that drops the line holding the keyword when the option is off.
ContainsNot(line) == ~Contains(line)
toggle_tabular_deleting(strategy, tab) ==
    IF \E k \in 1..Len(strategy) : Contains(strategy[k])
    THEN IF ~tab THEN SelectSeq(strategy, ContainsNot) ELSE strategy
    ELSE IF tab THEN Append(strategy, <<Keyword>>) ELSE strategy

\* A toggle that appends the keyword whenever the option is on.
toggle_tabular_appending(strategy, tab) ==
    IF tab THEN Append(strategy, <<Keyword>>)
    ELSE [k \in 1..Len(strategy) |-> Cut(strategy[k])]

\* The for/else of run_dakota: the first line holding the keyword is cut
\* when the option is off; with no such line, the keyword is appended when
\* the option is on.
toggle_tabular(strategy, tab) ==
    IF \E k \in 1..Len(strategy) : Contains(strategy[k])
    THEN LET first == CHOOSE k \in 1..Len(strategy) :
                        /\ Contains(strategy[k])
                        /\ \A j \in 1..(k - 1) : ~Contains(strategy[j])
         IN  IF ~tab
             THEN [strategy EXCEPT ![first] = Cut(strategy[first])]
             ELSE strategy
    ELSE IF tab THEN Append(strategy, <<Keyword>>) ELSE strategy

\* Section checks that look at the variables before the method.
sections_check_variables_first(inp) ==
    IF inp.variables = <<>> THEN Raise("ValueError", "Variables not set", <<>>)
    ELSE IF inp.method = <<>>
         THEN Raise("ValueError", "Method not set", <<>>)
         ELSE IF inp.responses = <<>>
              THEN Raise("ValueError", "Responses not set", <<>>)
              ELSE NoError

\* The three section checks that open run_dakota.
sections_check(inp) ==
    IF inp.method = <<>> THEN Raise("ValueError", "Method not set", <<>>)
    ELSE IF inp.variables = <<>>
         THEN Raise("ValueError", "Variables not set", <<>>)
         ELSE IF inp.responses = <<>>
              THEN Raise("ValueError", "Responses not set", <<>>)
              ELSE NoError

\* ---------------------------------------------------------- the engine
\* Values the engine puts in an active set vector entry: bit 1 asks for the
\* value, bit 2 for the gradient, bit 4 for the Hessian.
AsvVals == 0..7
\* The decks of this file ask for no analytic derivative (no_gradients,
\* numerical_gradients with method_source dakota, no_hessians): the engine
\* then asks for values only.
ValueAsvVals == {0, 1}

\* The engine's variable vectors: distinct values at distinct positions.
CvBases == {1, 2}
CvVector(c, n) == [k \in 1..n |-> c + k - 1]

\* What the engine reads in the deck: the number of variables (first line
\* of the variables section) and of responses (the counts of the responses
\* section).
NumVariables(inp) == inp.variables[1].vals[1].str

ResponseCountKeys ==
    {"objective_functions", "num_response_functions",
     "nonlinear_inequality_constraints"}

RECURSIVE CountResponses(_)
CountResponses(lines) ==
    IF lines = <<>> THEN 0
    ELSE (IF Head(lines).key \in ResponseCountKeys
          THEN Head(lines).vals[1].str ELSE 0)
         + CountResponses(Tail(lines))

NumResponses(inp) == CountResponses(inp.responses)

\* --------------------------------------------------------- the callback
\* The frame of a call: its arguments, the loop index i and the list fns,
\* what it raised and whether it returned; set, evals and reads record what
\* the call did so far (set_parameters done, calls of run_iteration, the
\* indices of the expressions evaluated, in order).
NoFrame ==
    [cv |-> <<>>, asv |-> <<>>, i |-> 1, fns |-> <<>>, set |-> FALSE,
     evals |-> 0, reads |-> <<>>, error |-> NoError, returned |-> FALSE]

NewFrame(cv, asv) == [NoFrame EXCEPT !.cv = cv, !.asv = asv]

Bit(a, b) == (a \div b) % 2 = 1

\* What an expression evaluator yields: a scalar or a relation.
Value(n) == [value |-> n]
Relation(lhs, rhs, op, violated) ==
    [lhs |-> lhs, rhs |-> rhs, op |-> op, violated |-> violated]

Satisfied(lhs, op, rhs) == IF op = ">=" THEN lhs >= rhs ELSE lhs <= rhs
Residual(lhs, op, rhs) == IF op = ">=" THEN rhs - lhs ELSE lhs - rhs

ObjExpr(e) == [kind |-> "objective", expr |-> e]
ConExpr(c) == [kind |-> "constraint", expr |-> c]

\* expr.evaluate(self.parent)
evaluate(ex, h, rel) ==
    IF ex.kind = "objective" THEN Value(ExprValue(ex.expr, h))
    ELSE LET lhs == ExprValue(ex.expr.lhs, h)
             rhs == ExprValue(ex.expr.rhs, h)
         IN  IF rel
             THEN Relation(lhs, rhs, ex.expr.op,
                           ~Satisfied(lhs, ex.expr.op, rhs))
             ELSE Value(Residual(lhs, ex.expr.op, rhs))

\* The expressions list of dakota_callback: objectives, then equality
\* constraints, then inequality constraints, for the delegates the class has.
expressions_of(v, objs, eqs, cons) ==
    Map(ObjExpr, objs)
    \o (IF HasEqDelegate(v) THEN Map(ConExpr, eqs) ELSE <<>>)
    \o (IF HasIneqDelegate(v) THEN Map(ConExpr, cons) ELSE <<>>)

Expressions == expressions_of(variant, objectives, <<>>, constraints)

\* A loop body that puts each new value in front of the list.
loop_body_prepending(fr, exprs, h, rel) ==
    LET a == fr.asv[fr.i]
        read == IF Bit(a, 1)
                THEN [fr EXCEPT
                        !.fns = <<evaluate(exprs[fr.i], h, rel)>> \o @,
                        !.reads = Append(@, fr.i)]
                ELSE fr
    IN  IF Bit(a, 2)
        THEN [read EXCEPT !.error =
                Raise("NotImplementedError", "Gradients not supported yet",
                      <<>>)]
        ELSE IF Bit(a, 4)
             THEN [read EXCEPT !.error =
                     Raise("NotImplementedError",
                           "Hessians not supported yet", <<>>)]
             ELSE [read EXCEPT !.i = @ + 1]

\* A loop body that tests the Hessian bit before the gradient bit.
loop_body_hessian_first(fr, exprs, h, rel) ==
    LET a == fr.asv[fr.i]
        read == IF Bit(a, 1)
                THEN [fr EXCEPT
                        !.fns = Append(@, evaluate(exprs[fr.i], h, rel)),
                        !.reads = Append(@, fr.i)]
                ELSE fr
    IN  IF Bit(a, 4)
        THEN [read EXCEPT !.error =
                Raise("NotImplementedError", "Hessians not supported yet",
                      <<>>)]
        ELSE IF Bit(a, 2)
             THEN [read EXCEPT !.error =
                     Raise("NotImplementedError",
                           "Gradients not supported yet", <<>>)]
             ELSE [read EXCEPT !.i = @ + 1]

\* The body of the loop of dakota_callback for entry fr.i: the value is
\* appended when bit 1 is set, then bit 2 and bit 4 raise, in that order.
loop_body(fr, exprs, h, rel) ==
    LET a == fr.asv[fr.i]
        read == IF Bit(a, 1)
                THEN [fr EXCEPT
                        !.fns = Append(@, evaluate(exprs[fr.i], h, rel)),
                        !.reads = Append(@, fr.i)]
                ELSE fr
    IN  IF Bit(a, 2)
        THEN [read EXCEPT !.error =
                Raise("NotImplementedError", "Gradients not supported yet",
                      <<>>)]
        ELSE IF Bit(a, 4)
             THEN [read EXCEPT !.error =
                     Raise("NotImplementedError",
                           "Hessians not supported yet", <<>>)]
             ELSE [read EXCEPT !.i = @ + 1]

\* The order of the statements of dakota_callback: set_parameters, then
\* run_iteration, then the loop over the expressions.
callback_entry == "cb_set"
\* A callback that goes from set_parameters straight to the loop.
after_set_parameters_skipping_run == "cb_loop"
after_set_parameters == "cb_run"
after_run_iteration == "cb_loop"

\* A failing host component: Broken.execute raises RuntimeError.
HostFailure ==
    [type |-> "RuntimeError", msg |-> "Evaluating x1=%s, x2=%s",
     args |-> <<>>, prefix |-> ""]

\* ----------------------------------------------------------------- run
\* What a run did: check_config was called, configure_input set the deck,
\* run_dakota was reached, the input file was written, the engine was
\* invoked, the callbacks so far, the option's value at the run, (until
\* the engine takes over) the method the deck named before the run, and the
\* cv of the most recent callback.
NoRun ==
    [checked |-> FALSE, configured |-> FALSE, reached |-> FALSE,
     written |-> FALSE, invoked |-> FALSE, evals |-> 0, tab |-> FALSE,
     was |-> "none", cv |-> <<>>]

MethodOf(inp) ==
    IF inp.method = <<>> THEN "none"
    ELSE IF inp.method[1].key = "output" THEN inp.method[2].key
         ELSE inp.method[1].key

Outcome(err, inp, configured, reached, started) ==
    [err |-> err, input |-> inp, configured |-> configured,
     reached |-> reached, written |-> started, invoked |-> started]

\* DakotaBase.run_dakota up to the call of the engine: the section checks,
\* the strategy toggle, write_input and the call itself.
run_dakota(inp, tab, configured) ==
    IF sections_check(inp) # NoError
    THEN Outcome(sections_check(inp), inp, configured, TRUE, FALSE)
    ELSE Outcome(NoError,
                 [inp EXCEPT !.strategy = toggle_tabular(@, tab)],
                 configured, TRUE, TRUE)

\* DakotaBase.execute: configure_input, then run_dakota.
execute(v, inp, ps, objs, cons, parts, final, h, tab) ==
    LET c == configure_input(v, inp, ps, objs, cons, parts, final, h)
    IN  IF c.err # NoError
        THEN Outcome(c.err, c.input, FALSE, FALSE, FALSE)
        ELSE run_dakota(c.input, tab, TRUE)

\* Driver.run: check_config, then execute.
driver_run(v, inp, ps, objs, cons, parts, final, h, tab) ==
    IF check_config(ps, objs) # NoError
    THEN Outcome(check_config(ps, objs), inp, FALSE, FALSE, FALSE)
    ELSE execute(v, inp, ps, objs, cons, parts, final, h, tab)

\* -------------------------------------------------------------- actions
\* A driver after construction, in a host framework whose constraint
\* evaluator yields the scalar residual.
Init ==
    /\ variant \in Variants
    /\ relational = FALSE
    /\ parameters = <<>>
    /\ objectives = <<>>
    /\ constraints = <<>>
    /\ tabular_graphics_data = FALSE
    /\ partitions = <<>>
    /\ final_point = <<>>
    /\ input = BaselineInput
    /\ host = [x |-> [t \in Targets |-> 0], f |-> 0]
    /\ pc = "idle"
    /\ error = NoError
    /\ runs = 0
    /\ run = NoRun
    /\ cb = NoFrame

Editing == pc = "idle" /\ runs < MaxRuns

\* An edit of the driver between two runs: the deck and the host stay as
\* they are; what the last run reported is no longer looked at.
Edited ==
    /\ error' = NoError
    /\ run' = NoRun
    /\ UNCHANGED <<variant, relational, input, host, pc, runs, cb>>

\* driver.add_parameter(...): a target is a parameter at most once.
AddParameter ==
    /\ Editing
    /\ \E p \in ParamKinds :
        /\ \A k \in 1..Len(parameters) : parameters[k] # p
        /\ parameters' = Append(parameters, p)
    /\ Edited
    /\ UNCHANGED <<objectives, constraints, tabular_graphics_data,
                   partitions, final_point>>

\* driver.clear_parameters()
ClearParameters ==
    /\ Editing
    /\ parameters # <<>>
    /\ parameters' = <<>>
    /\ Edited
    /\ UNCHANGED <<objectives, constraints, tabular_graphics_data,
                   partitions, final_point>>

\* driver.add_objective(...): refused beyond the class's limit.
AddObjective ==
    /\ Editing
    /\ MaxObjectives(variant) = 0 \/ Len(objectives) < MaxObjectives(variant)
    /\ Len(objectives) < Len(ObjExprs)
    /\ objectives' = Append(objectives, ObjExprs[Len(objectives) + 1])
    /\ Edited
    /\ UNCHANGED <<parameters, constraints, tabular_graphics_data,
                   partitions, final_point>>

\* driver.clear_objectives()
ClearObjectives ==
    /\ Editing
    /\ objectives # <<>>
    /\ objectives' = <<>>
    /\ Edited
    /\ UNCHANGED <<parameters, constraints, tabular_graphics_data,
                   partitions, final_point>>

\* driver.add_constraint(...), for the class with the delegate.
AddConstraint ==
    /\ Editing
    /\ HasIneqDelegate(variant)
    /\ Len(constraints) < Len(ConKinds)
    /\ constraints' = Append(constraints, ConKinds[Len(constraints) + 1])
    /\ Edited
    /\ UNCHANGED <<parameters, objectives, tabular_graphics_data,
                   partitions, final_point>>

\* driver.clear_constraints()
ClearConstraints ==
    /\ Editing
    /\ constraints # <<>>
    /\ constraints' = <<>>
    /\ Edited
    /\ UNCHANGED <<parameters, objectives, tabular_graphics_data,
                   partitions, final_point>>

\* driver.tabular_graphics_data = True / False
SetTabular ==
    /\ Editing
    /\ tabular_graphics_data' = ~tabular_graphics_data
    /\ Edited
    /\ UNCHANGED <<parameters, objectives, constraints, partitions,
                   final_point>>

\* driver.partitions = [...]
SetPartitions ==
    /\ Editing
    /\ variant = "DakotaMultidimStudy"
    /\ \E n \in 0..MaxList :
        /\ n # Len(partitions)
        /\ partitions' = Repeat(8, n)
    /\ Edited
    /\ UNCHANGED <<parameters, objectives, constraints,
                   tabular_graphics_data, final_point>>

\* driver.final_point = [...]
SetFinalPoint ==
    /\ Editing
    /\ variant = "DakotaVectorStudy"
    /\ \E n \in 0..MaxList :
        /\ n # Len(final_point)
        /\ final_point' = Repeat(1, n)
    /\ Edited
    /\ UNCHANGED <<parameters, objectives, constraints,
                   tabular_graphics_data, partitions>>

\* top.run(): check_config, configure_input and run_dakota up to the point
\* where the engine has the deck and starts calling back.
Run ==
    /\ Editing
    /\ LET r == driver_run(variant, input, parameters, objectives,
                           constraints, partitions, final_point, host,
                           tabular_graphics_data)
       IN  /\ input' = r.input
           /\ error' = r.err
           /\ pc' = IF r.invoked THEN "engine" ELSE "idle"
           /\ run' = [checked |-> TRUE, configured |-> r.configured,
                      reached |-> r.reached, written |-> r.written,
                      invoked |-> r.invoked, evals |-> 0,
                      tab |-> tabular_graphics_data,
                      was |-> MethodOf(input), cv |-> <<>>]
    /\ runs' = runs + 1
    /\ cb' = NoFrame
    /\ UNCHANGED <<config, host>>

\* The engine calls dakota_callback(cv=..., asv=...).
EngineCallWith(vals, limit) ==
    /\ pc = "engine"
    /\ run.evals < limit
    /\ \E c \in CvBases, a \in [1..NumResponses(input) -> vals] :
        /\ cb' = NewFrame(CvVector(c, NumVariables(input)), a)
        /\ run' = [run EXCEPT !.evals = @ + 1, !.was = "none",
                              !.cv = CvVector(c, NumVariables(input))]
    /\ pc' = callback_entry
    /\ UNCHANGED <<config, input, host, error, runs>>

EngineCall == EngineCallWith(ValueAsvVals, MaxEvals)

\* self.set_parameters(cv)
CbSetParameters ==
    /\ pc = "cb_set"
    /\ host' = set_parameters(parameters, cb.cv, host)
    /\ cb' = [cb EXCEPT !.set = TRUE]
    /\ pc' = after_set_parameters
    /\ UNCHANGED <<config, input, error, runs, run>>

\* self.run_iteration(): the host evaluates, or fails.
CbRunIteration ==
    /\ pc = "cb_run"
    /\ \/ /\ host' = run_iteration(host)
          /\ cb' = [cb EXCEPT !.evals = @ + 1]
          /\ pc' = after_run_iteration
       \/ /\ cb' = [cb EXCEPT !.evals = @ + 1, !.error = HostFailure]
          /\ pc' = "cb_raise"
          /\ host' = host
    /\ UNCHANGED <<config, input, error, runs, run>>

\* One pass of the loop over the expressions.
CbLoop ==
    /\ pc = "cb_loop"
    /\ cb.i <= Len(Expressions)
    /\ cb' = loop_body(cb, Expressions, host, relational)
    /\ pc' = IF cb'.error # NoError THEN "cb_raise" ELSE "cb_loop"
    /\ UNCHANGED <<config, input, host, error, runs, run>>

\* return dict(fns=array(fns))
CbReturn ==
    /\ pc = "cb_loop"
    /\ cb.i > Len(Expressions)
    /\ cb' = [cb EXCEPT !.returned = TRUE]
    /\ pc' = "engine"
    /\ UNCHANGED <<config, input, host, error, runs, run>>

\* A run_dakota that swallows what the engine raised.
reraise_exception_swallowing(e) == NoError
\* self.reraise_exception(): the same exception, its message prefixed with
\* the driver's pathname.
reraise_exception(e) == [e EXCEPT !.prefix = "driver: "]

\* An exception leaves the callback: the engine gives up the run and
\* run_dakota re-raises it to the caller of the run.
EngineAbort ==
    /\ pc = "cb_raise"
    /\ error' = reraise_exception(cb.error)
    /\ pc' = "idle"
    /\ cb' = NoFrame
    /\ UNCHANGED <<config, input, host, runs, run>>

\* The engine ends the run.
EngineDone ==
    /\ pc = "engine"
    /\ pc' = "idle"
    /\ cb' = NoFrame
    /\ run' = [run EXCEPT !.was = "none"]
    /\ UNCHANGED <<config, input, host, error, runs>>

Next ==
    \/ AddParameter
    \/ ClearParameters
    \/ AddObjective
    \/ ClearObjectives
    \/ AddConstraint
    \/ ClearConstraints
    \/ SetTabular
    \/ SetPartitions
    \/ SetFinalPoint
    \/ Run
    \/ EngineCall
    \/ CbSetParameters
    \/ CbRunIteration
    \/ CbLoop
    \/ CbReturn
    \/ EngineAbort
    \/ EngineDone

Spec == Init /\ [][Next]_vars

\* An engine that may ask for derivatives: any active set vector.
EngineCallAny == EngineCallWith(AsvVals, MaxCallbacks)

RECURSIVE Prefixes(_)
Prefixes(s) ==
    IF s = <<>> THEN {<<>>} ELSE {s} \cup Prefixes(SubSeq(s, 1, Len(s) - 1))

ParamSeqs ==
    {<<>>} \cup {<<p>> : p \in ParamKinds}
    \cup {<<p, q>> : <<p, q>> \in {pq \in ParamKinds \X ParamKinds :
                                        pq[1] # pq[2]}}

\* A driver as a user's configure() leaves it before the first run, with
\* either form of constraint evaluator, run by an engine that may ask for
\* anything.
InitCallback ==
    /\ variant \in {"DakotaCONMIN", "DakotaGlobalSAStudy"}
    /\ relational \in (IF HasIneqDelegate(variant) THEN BOOLEAN ELSE {FALSE})
    /\ parameters \in ParamSeqs \ {<<>>}
    /\ objectives \in
        {o \in Prefixes(ObjExprs) \ {<<>>} :
            MaxObjectives(variant) = 0 \/ Len(o) <= MaxObjectives(variant)}
    /\ constraints \in
        (IF HasIneqDelegate(variant) THEN Prefixes(ConKinds) ELSE {<<>>})
    /\ tabular_graphics_data = FALSE
    /\ partitions = <<>>
    /\ final_point = <<>>
    /\ input = BaselineInput
    /\ host = [x |-> [t \in Targets |-> 0], f |-> 0]
    /\ pc = "idle"
    /\ error = NoError
    /\ runs = 0
    /\ run = NoRun
    /\ cb = NoFrame

NextCallback ==
    \/ Run
    \/ EngineCallAny
    \/ CbSetParameters
    \/ CbRunIteration
    \/ CbLoop
    \/ CbReturn
    \/ EngineAbort
    \/ EngineDone

SpecCallback == InitCallback /\ [][NextCallback]_vars

\* ------------------------------------------- the deck set directly
\* DakotaBase's docstring: the method and responses sections of input must
\* be set directly, set_variables is typically used for the variables
\* section; run_dakota is then called on the deck as it is.
DirectEdited ==
    /\ error' = NoError
    /\ run' = NoRun
    /\ UNCHANGED <<config, host, pc, runs, cb>>

DirectMethod == << Line("sampling", <<>>) >>

DirectResponses(objs) ==
    << Line("objective_functions", <<Str(Len(objs))>>),
       Line("no_gradients", <<>>),
       Line("no_hessians", <<>>) >>

\* driver.input.method = [...] / = []
SetMethod ==
    /\ Editing
    /\ input' = [input EXCEPT
                    !.method = IF @ = <<>> THEN DirectMethod ELSE <<>>]
    /\ DirectEdited

\* driver.set_variables(need_start=False)
CallSetVariables ==
    /\ Editing
    /\ input.variables # set_variables(parameters, host, FALSE, FALSE)
    /\ input' = [input EXCEPT
                    !.variables = set_variables(parameters, host, FALSE, FALSE)]
    /\ DirectEdited

\* driver.input.variables = []
ClearVariables ==
    /\ Editing
    /\ input.variables # <<>>
    /\ input' = [input EXCEPT !.variables = <<>>]
    /\ DirectEdited

\* driver.input.responses = [...] / = []
SetResponses ==
    /\ Editing
    /\ input' = [input EXCEPT
                    !.responses = IF @ = <<>> THEN DirectResponses(objectives)
                                  ELSE <<>>]
    /\ DirectEdited

\* driver.run_dakota(), called on the deck as it is, up to the point where
\* the engine has the deck and starts calling back.
RunDakota ==
    /\ Editing
    /\ LET r == run_dakota(input, tabular_graphics_data, FALSE)
       IN  /\ input' = r.input
           /\ error' = r.err
           /\ pc' = IF r.invoked THEN "engine" ELSE "idle"
           /\ run' = [NoRun EXCEPT !.reached = r.reached,
                                   !.written = r.written,
                                   !.invoked = r.invoked,
                                   !.tab = tabular_graphics_data,
                                   !.was = MethodOf(input)]
    /\ runs' = runs + 1
    /\ cb' = NoFrame
    /\ UNCHANGED <<config, host>>

\* A base driver, or a study, with one parameter and one objective, whose
\* deck the user sets directly.
InitDirect ==
    /\ variant \in {"DakotaBase", "DakotaGlobalSAStudy"}
    /\ relational = FALSE
    /\ parameters \in {<<p>> : p \in ParamKinds}
    /\ objectives = SubSeq(ObjExprs, 1, 1)
    /\ constraints = <<>>
    /\ tabular_graphics_data = FALSE
    /\ partitions = <<>>
    /\ final_point = <<>>
    /\ input = BaselineInput
    /\ host = [x |-> [t \in Targets |-> 0], f |-> 0]
    /\ pc = "idle"
    /\ error = NoError
    /\ runs = 0
    /\ run = NoRun
    /\ cb = NoFrame

NextDirect ==
    \/ SetMethod
    \/ CallSetVariables
    \/ ClearVariables
    \/ SetResponses
    \/ SetTabular
    \/ RunDakota
    \/ Run
    \/ EngineCall
    \/ CbSetParameters
    \/ CbRunIteration
    \/ CbLoop
    \/ CbReturn
    \/ EngineAbort
    \/ EngineDone

SpecDirect == InitDirect /\ [][NextDirect]_vars

\* ============================================================ properties
InCallback == pc \in {"cb_set", "cb_run", "cb_loop", "cb_raise"}

\* The responses as declared: the objectives in declaration order, then the
\* inequality constraints in declaration order.
DeclaredResponses ==
    [k \in 1..(Len(objectives) + Len(constraints)) |->
        IF k <= Len(objectives)
        THEN [kind |-> "objective", expr |-> objectives[k]]
        ELSE [kind |-> "constraint",
              expr |-> constraints[k - Len(objectives)]]]

\* The indices of the entries of asv that ask for the value, ascending.
RECURSIVE ValueIndices(_, _)
ValueIndices(asv, k) ==
    IF k > Len(asv) THEN <<>>
    ELSE (IF Bit(asv[k], 1) THEN <<k>> ELSE <<>>)
         \o ValueIndices(asv, k + 1)

WantsDerivative(a) == Bit(a, 2) \/ Bit(a, 4)
NoDerivative(asv) == \A k \in 1..Len(asv) : ~WantsDerivative(asv[k])

\* The host after the evaluation of the call's cv.
HostEvaluatedAt(cv) ==
    LET x == [t \in Targets |->
                IF \E k \in 1..Len(AllSlots(parameters)) :
                        t \in Range(AllSlots(parameters)[k])
                THEN cv[CHOOSE k \in 1..Len(AllSlots(parameters)) :
                            t \in Range(AllSlots(parameters)[k])]
                ELSE host.x[t]]
    IN  [x |-> x, f |-> HostF(x)]

\* C1: a call whose asv asks for no derivative returns in fns exactly one
\* value per response whose entry has bit 1 set and none for the others, in
\* declared order (objectives, then constraints), each the response's value
\* after the evaluation of the call's cv; asv = [1] with one objective
\* returns that one objective.
C1_ValuesInDeclaredOrder ==
    (cb.returned /\ NoDerivative(cb.asv)) =>
        /\ Len(cb.asv) = Len(DeclaredResponses)
        /\ Len(cb.fns) = Cardinality({k \in 1..Len(cb.asv) : Bit(cb.asv[k], 1)})
        /\ cb.reads = ValueIndices(cb.asv, 1)
        /\ \A k \in 1..Len(cb.fns) :
            cb.fns[k] = evaluate(DeclaredResponses[ValueIndices(cb.asv, 1)[k]],
                                 HostEvaluatedAt(cb.cv), relational)
        /\ (cb.asv = <<1>> /\ Len(objectives) = 1) =>
            cb.fns = << Value(ExprValue(objectives[1],
                                        HostEvaluatedAt(cb.cv))) >>

C1_Witness ==
    /\ cb.returned
    /\ cb.asv = <<1, 0, 1>>
    /\ Len(cb.fns) = 2
    /\ Len(objectives) = 1

\* C2: in a call, set_parameters writes cv positionally into the host's
\* parameters, then the host is evaluated once, and only then is a response
\* read: no read before the evaluation, never a second evaluation.
C2_SetThenRunOnceThenRead ==
    /\ cb.evals <= 1
    /\ cb.evals = 1 => cb.set
    /\ cb.reads # <<>> => (cb.set /\ cb.evals = 1)
    /\ cb.returned => (cb.set /\ cb.evals = 1)
    /\ (InCallback /\ cb.set) =>
        \A k \in 1..Len(cb.cv) :
            \A t \in Range(AllSlots(parameters)[k]) : host.x[t] = cb.cv[k]
    /\ (pc = "cb_loop" \/ cb.reads # <<>>) => host.f = HostF(host.x)

C2_Witness ==
    /\ cb.returned
    /\ cb.reads = <<1, 2>>
    /\ Len(parameters) = 2
    /\ host.f # 0

\* The call is over: it returned, or it raised.
CallEnded == cb.returned \/ pc = "cb_raise"

FirstDerivative(asv) ==
    CHOOSE d \in 1..Len(asv) :
        /\ WantsDerivative(asv[d])
        /\ \A j \in 1..(d - 1) : ~WantsDerivative(asv[j])

\* The call refused the derivative its asv asks for: it raised
\* NotImplementedError, with the message of the first entry that asks for a
\* derivative, returned nothing, and evaluated the responses up to that
\* entry only.
DerivativeRefused ==
    LET d == FirstDerivative(cb.asv)
    IN  /\ pc = "cb_raise"
        /\ ~cb.returned
        /\ cb.error =
            Raise("NotImplementedError",
                  IF Bit(cb.asv[d], 2) THEN "Gradients not supported yet"
                  ELSE "Hessians not supported yet", <<>>)
        /\ cb.reads = ValueIndices(SubSeq(cb.asv, 1, d), 1)

\* C3 as claimed: every call whose asv has a gradient or Hessian bit fails
\* with NotImplementedError, returns nothing and evaluates no response after
\* the first entry that asks for a derivative.
C3_AsClaimed ==
    (CallEnded /\ ~NoDerivative(cb.asv)) => DerivativeRefused

\* C3, amended: the same for every such call whose host evaluation did not
\* fail (a failing evaluation raises its own error before any entry of asv
\* is looked at); the message is decided by the first entry that asks for a
\* derivative, Gradients if it has bit 2 and Hessians if it has bit 4 only.
\* At no point of a call is a response after that entry evaluated, and a
\* call that returns had no derivative bit.
C3_DerivativeRefused ==
    /\ (CallEnded /\ ~NoDerivative(cb.asv) /\ cb.error # HostFailure) =>
            DerivativeRefused
    /\ ~NoDerivative(cb.asv) =>
            /\ ~cb.returned
            /\ \A k \in 1..Len(cb.reads) :
                    cb.reads[k] <= FirstDerivative(cb.asv)

C3_Witness ==
    /\ pc = "cb_raise"
    /\ cb.asv = <<1, 5, 2>>
    /\ cb.reads = <<1, 2>>
    /\ cb.error.msg = "Hessians not supported yet"

\* C4: when the host's evaluation fails in a call, the call reads no
\* response and returns nothing, the host is not evaluated again, and the
\* run ends at once with that same error raised to the caller of the run.
C4_HostFailureAtCall ==
    (pc = "cb_raise" /\ cb.error = HostFailure) =>
        /\ cb.reads = <<>>
        /\ cb.fns = <<>>
        /\ ~cb.returned
        /\ cb.evals = 1

C4_FailureEndsRun ==
    (pc = "cb_raise") =>
        /\ pc' = "idle"
        /\ error'.type = cb.error.type
        /\ error'.msg = cb.error.msg
        /\ error'.prefix = "driver: "
        /\ host' = host
        /\ run'.evals = run.evals

\* C4, as one formula: the state of the failed call, the step that ends the
\* run, and the error the caller of the run sees.
C4_HostFailurePropagates ==
    /\ []C4_HostFailureAtCall
    /\ [][C4_FailureEndsRun]_vars
    /\ [](error.type = "RuntimeError" =>
            (pc = "idle" /\ error.msg = HostFailure.msg /\ run.invoked))

C4_Witness ==
    /\ pc = "idle"
    /\ error.type = "RuntimeError"
    /\ run.invoked
    /\ run.evals = 1

\* C5 as claimed: the value the callback puts in fns for a constraint is
\* the signed residual, rhs - lhs for a 'greater than' sense and lhs - rhs
\* otherwise, also when the evaluator yields the relation (lhs, rhs,
\* operator, violated); an objective's scalar is passed through unchanged.
C5_SignedResidual ==
    \A k \in 1..Len(cb.fns) :
        LET ex == DeclaredResponses[cb.reads[k]]
        IN  IF ex.kind = "constraint"
            THEN cb.fns[k] =
                    Value(Residual(ExprValue(ex.expr.lhs, host), ex.expr.op,
                                   ExprValue(ex.expr.rhs, host)))
            ELSE cb.fns[k] = Value(ExprValue(ex.expr, host))

\* A step of top.run() taken with the driver as it is configured now.
RunStep == pc = "idle" /\ run'.checked

NothingStarted ==
    /\ input' = input
    /\ host' = host
    /\ pc' = "idle"
    /\ ~run'.configured
    /\ ~run'.written
    /\ ~run'.invoked
    /\ run'.evals = 0

\* C6: a run with no parameters raises ValueError 'No parameters, run
\* aborted', one with parameters but no objectives 'No objectives, run
\* aborted', whatever the driver's class; the deck is not configured, no
\* input file is written, the engine is not invoked and no callback happens.
C6_Step ==
    (RunStep /\ (parameters = <<>> \/ objectives = <<>>)) =>
        /\ error' =
            [type |-> "ValueError",
             msg |-> IF parameters = <<>> THEN "No parameters, run aborted"
                     ELSE "No objectives, run aborted",
             args |-> <<>>, prefix |-> "driver: "]
        /\ NothingStarted

C6_NoCallback ==
    (run.checked /\ (parameters = <<>> \/ objectives = <<>>)) =>
        (pc = "idle" /\ run.evals = 0 /\ cb = NoFrame)

\* C6, as one formula: every run step of an empty configuration, and no
\* callback after it.
C6_EmptyConfigurationRefused == [][C6_Step]_vars /\ []C6_NoCallback

C6_Witness ==
    /\ run.checked
    /\ parameters = <<>>
    /\ objectives = <<>>
    /\ error.msg = "No parameters, run aborted"
    /\ input.method # <<>>

\* The number of variables of the declared parameters.
VariableCount == Len(AllSlots(parameters))

\* C7: when execute is reached with len(partitions) (multidim study) or
\* len(final_point) (vector study) different from the number of variables,
\* it raises ValueError with both counts, the deck stays as it was, no input
\* file is written and the engine is not invoked, also after a run that
\* succeeded.
C7_Step ==
    /\ (/\ RunStep
        /\ parameters # <<>>
        /\ objectives # <<>>
        /\ variant = "DakotaMultidimStudy"
        /\ Len(partitions) # VariableCount) =>
            /\ error' =
                [type |-> "ValueError",
                 msg |-> "#partitions (%s) != #parameters (%s)",
                 args |-> <<Len(partitions), VariableCount>>,
                 prefix |-> "driver: "]
            /\ NothingStarted
    /\ (/\ RunStep
        /\ parameters # <<>>
        /\ objectives # <<>>
        /\ variant = "DakotaVectorStudy"
        /\ Len(final_point) # VariableCount) =>
            /\ error' =
                [type |-> "ValueError",
                 msg |-> "#final_point (%s) != #parameters (%s)",
                 args |-> <<Len(final_point), VariableCount>>,
                 prefix |-> "driver: "]
            /\ NothingStarted

\* C7, as one formula: every run step with a list of the wrong length.
C7_ListLengthChecked == [][C7_Step]_vars

C7_Witness ==
    /\ run.checked
    /\ variant = "DakotaMultidimStudy"
    /\ run.was = "multidim_parameter_study"
    /\ error.msg = "#partitions (%s) != #parameters (%s)"
    /\ error.args = <<3, 2>>
    /\ ~run.invoked

RECURSIVE KeywordCount(_)
KeywordCount(lines) ==
    IF lines = <<>> THEN 0
    ELSE Cardinality({k \in 1..Len(Head(lines)) : Head(lines)[k] = Keyword})
         + KeywordCount(Tail(lines))

\* C8: after any sequence of runs the strategy section holds the keyword
\* tabular_graphics_data once if the option was on at the latest call of
\* run_dakota and not at all if it was off; it never holds it twice.
C8_KeywordOnceOrNever ==
    /\ KeywordCount(input.strategy) <= 1
    /\ run.invoked =>
        KeywordCount(input.strategy) = (IF run.tab THEN 1 ELSE 0)

C8_Witness ==
    /\ run.invoked
    /\ ~run.tab
    /\ input.strategy = << <<"single_method">>, <<>> >>

RECURSIVE CountKey(_, _)
CountKey(lines, key) ==
    IF lines = <<>> THEN 0
    ELSE (IF Head(lines).key = key THEN 1 ELSE 0) + CountKey(Tail(lines), key)

LineOf(lines, key) == lines[CHOOSE k \in 1..Len(lines) : lines[k].key = key]

\* C9: DakotaCONMIN.configure_input names the method conmin_mfd when there
\* are inequality constraints and conmin_frcg when there are none; the
\* constraint_tolerance line and the nonlinear_inequality_constraints line
\* (with the number of constraints) are there exactly with conmin_mfd, once,
\* whatever the deck held before.
C9_MethodFollowsConstraints ==
    (variant = "DakotaCONMIN" /\ run.configured) =>
        LET n == IF constraints # <<>> THEN 1 ELSE 0
        IN  /\ input.method[1].key =
                (IF constraints # <<>> THEN "conmin_mfd" ELSE "conmin_frcg")
            /\ CountKey(input.method, "conmin_mfd") = n
            /\ CountKey(input.method, "conmin_frcg") = 1 - n
            /\ CountKey(input.method, "constraint_tolerance") = n
            /\ CountKey(input.responses,
                        "nonlinear_inequality_constraints") = n
            /\ n = 1 =>
                LineOf(input.responses,
                       "nonlinear_inequality_constraints").vals
                    = <<Str(Len(constraints))>>

C9_Witness ==
    /\ variant = "DakotaCONMIN"
    /\ run.configured
    /\ run.was = "conmin_mfd"
    /\ input.method[1].key = "conmin_frcg"

\* The declared parameter that owns host input t.
OwnerOf(t) ==
    CHOOSE p \in Range(parameters) :
        \E k \in 1..Len(p.slots) : t \in Range(p.slots[k])

\* C10: the lower_bounds, upper_bounds and descriptors lines each have as
\* many entries as the count on the first line of the variables section,
\* which is the number of variables; entry k is the bound, or the quoted
\* name, of variable k in declaration order, the variable that receives
\* cv[k] in the callback.
C10_VariablesLinesAligned ==
    /\ run.configured =>
        LET n == input.variables[1].vals[1].str
            lb == LineOf(input.variables, "lower_bounds").vals
            ub == LineOf(input.variables, "upper_bounds").vals
            ds == LineOf(input.variables, "descriptors").vals
        IN  /\ n = VariableCount
            /\ Len(lb) = n
            /\ Len(ub) = n
            /\ Len(ds) = n
            /\ \A k \in 1..VariableCount :
                LET t == AllSlots(parameters)[k][1]
                IN  /\ k <= Len(ds) => ds[k] = [quoted |-> t]
                    /\ k <= Len(lb) => lb[k] = [str |-> OwnerOf(t).low]
                    /\ k <= Len(ub) => ub[k] = [str |-> OwnerOf(t).high]
    /\ (run.configured /\ InCallback /\ cb.set) =>
        LET ds == LineOf(input.variables, "descriptors").vals
        IN  /\ Len(ds) = Len(cb.cv)
            /\ \A k \in 1..Len(ds) : host.x[ds[k].quoted] = cb.cv[k]

C10_Witness ==
    /\ run.configured
    /\ pc = "cb_run"
    /\ Len(parameters) = 2
    /\ parameters[1].name = "x1"
    /\ Len(LineOf(input.variables, "descriptors").vals) = 3

\* The midpoint of a parameter's bounds, once per variable of the parameter.
Midpoint(p) == (p.low + p.high) \div 2
MidpointsOf(p) == Repeat(Str(Midpoint(p)), p.size)

\* C11 as claimed: no parameter has a start value, and the initial_point
\* line assembled for the optimizer lists, in declaration order, the
\* midpoint (low + high) / 2 of each parameter's bounds, whatever values the
\* host's inputs hold.
C11_InitialPointIsMidpoint ==
    (variant = "DakotaCONMIN" /\ run.configured) =>
        LineOf(input.variables, "initial_point").vals
            = Flatten(Map(MidpointsOf, parameters))

\* A step that calls run_dakota directly, on the deck as it is.
DirectStep == pc = "idle" /\ run'.reached /\ ~run'.checked

Refused(msg) ==
    /\ error' =
        [type |-> "ValueError", msg |-> msg, args |-> <<>>,
         prefix |-> "driver: "]
    /\ input' = input
    /\ host' = host
    /\ pc' = "idle"
    /\ ~run'.written
    /\ ~run'.invoked
    /\ run'.evals = 0

\* C12: run_dakota called with an empty method, variables or responses
\* section raises ValueError 'Method not set', 'Variables not set',
\* 'Responses not set', the first that applies in that order, and then the
\* strategy section (the whole deck) is unchanged, no input file is written
\* and the engine is not invoked; with the three sections set it starts the
\* engine.
C12_DirectStep ==
    DirectStep =>
        IF input.method = <<>> THEN Refused("Method not set")
        ELSE IF input.variables = <<>> THEN Refused("Variables not set")
        ELSE IF input.responses = <<>> THEN Refused("Responses not set")
        ELSE run'.written /\ run'.invoked /\ pc' = "engine"

\* The base driver's run fails in execute, in configure_input, with
\* NotImplementedError, and run_dakota is not reached.
C12_BaseStep ==
    (RunStep /\ variant = "DakotaBase" /\ parameters # <<>>
             /\ objectives # <<>>) =>
        /\ error' =
            [type |-> "NotImplementedError", msg |-> "configure_input",
             args |-> <<>>, prefix |-> "driver: "]
        /\ ~run'.reached
        /\ NothingStarted

C12_NoCallback ==
    (run.reached /\ ~run.invoked) =>
        (pc = "idle" /\ cb = NoFrame /\ run.evals = 0
         /\ error.type = "ValueError")

\* C12, as one formula: every direct call of run_dakota, every run of the
\* base driver, and no callback after a refusal.
C12_SectionsChecked ==
    [][C12_DirectStep /\ C12_BaseStep]_vars /\ []C12_NoCallback

C12_Witness ==
    /\ run.reached
    /\ ~run.invoked
    /\ error.msg = "Variables not set"
    /\ input.responses = <<>>
    /\ tabular_graphics_data
    /\ input.strategy = BaselineInput.strategy

\* Every input of variable k holds cv[k].
HostHolds(cv) ==
    /\ Len(cv) = VariableCount
    /\ \A k \in 1..Len(cv) :
        \A t \in Range(AllSlots(parameters)[k]) : host.x[t] = cv[k]

\* C13: between the callbacks of a run and after the run, the host's
\* parameters hold the cv of the most recent callback and, unless that
\* callback's evaluation failed, its outputs are those of the evaluation at
\* that cv.
C13_HostAtLastCv ==
    (~InCallback /\ run.evals >= 1) =>
        /\ HostHolds(run.cv)
        /\ error.type # "RuntimeError" => host.f = HostF(host.x)

\* Nothing restores the host: outside a callback no step changes it, and an
\* evaluation that fails leaves its outputs as they were.
C13_NothingRestores ==
    /\ (~InCallback /\ pc' \in {"idle", "engine"}) => host' = host
    /\ (pc = "cb_run" /\ pc' = "cb_raise") => host' = host
    /\ pc = "cb_loop" => host' = host

\* C13, as one formula.
C13_HostKeepsLastCv == []C13_HostAtLastCv /\ [][C13_NothingRestores]_vars

C13_Witness ==
    /\ pc = "idle"
    /\ error = NoError
    /\ run.evals = 2
    /\ run.cv = <<2, 3>>
    /\ host.x["a[0]"] = 2
    /\ host.x["a[1]"] = 3
    /\ host.f = HostF(host.x)

\* No line of the strategy section is deleted or moved: each is where it
\* was, as it was or with the keyword cut out of it.
StrategyKept ==
    /\ Len(input'.strategy) >= Len(input.strategy)
    /\ \A k \in 1..Len(input.strategy) :
        \/ input'.strategy[k] = input.strategy[k]
        \/ /\ input'.strategy[k] # input.strategy[k]
           /\ input'.strategy[k] =
                SelectSeq(input.strategy[k], IsNotKeyword)

HasKeyword == \E k \in 1..Len(input.strategy) : Contains(input.strategy[k])

AddsOneLine ==
    /\ Len(input'.strategy) = Len(input.strategy) + 1
    /\ input'.strategy[Len(input'.strategy)] = <<Keyword>>

\* A step in which run_dakota is called, and one in which it gets past its
\* section checks.
RunDakotaStep == pc = "idle" /\ run'.reached
ToggleStep == pc = "idle" /\ run'.invoked

\* C14 as claimed: no run deletes or moves a strategy line; a run adds one
\* line exactly when the option is on and no line holds the keyword; a run
\* with the option as it was at the previous run leaves the section as it
\* was.
C14_AsClaimed ==
    [][/\ StrategyKept
       /\ RunDakotaStep =>
            (AddsOneLine <=> (tabular_graphics_data /\ ~HasKeyword))
       /\ (RunDakotaStep /\ run.reached
                /\ run.tab = tabular_graphics_data) =>
            input'.strategy = input.strategy]_vars

\* C14, amended: the same for the runs in which run_dakota gets past its
\* section checks (a call it refuses, like every other step, leaves the
\* section alone), the previous run being one of those too.
C14_StrategyLinesKept ==
    [][/\ StrategyKept
       /\ ToggleStep =>
            /\ AddsOneLine <=> (tabular_graphics_data /\ ~HasKeyword)
            /\ ~AddsOneLine => Len(input'.strategy) = Len(input.strategy)
            /\ (tabular_graphics_data <=> HasKeyword) =>
                    input'.strategy = input.strategy
       /\ ~ToggleStep => input'.strategy = input.strategy
       /\ (ToggleStep /\ run.invoked /\ run.tab = tabular_graphics_data) =>
            input'.strategy = input.strategy]_vars

C14_Witness ==
    /\ run.invoked
    /\ ~run.checked
    /\ ~tabular_graphics_data
    /\ Len(input.strategy) = 2
    /\ input.strategy[1] = BaselineInput.strategy[1]
    /\ input.strategy[2] = <<>>
    /\ pc = "idle"

====
